---- MODULE Spec2Model ----
(***************************************************************************)
(* State-machine model of RustiFlow's FlowTable<T>                         *)
(* (rustiflow/src/flow_table.rs): the live-flow mapping, event-time        *)
(* expiration sweeps, early export, termination and the shutdown flush,    *)
(* feeding a bounded tokio mpsc export channel.                            *)
(*                                                                         *)
(* Time is counted in ticks of 1/TicksPerSecond second.  An Option<T> is   *)
(* the empty sequence (None) or a one-element sequence (Some(v)).          *)
(***************************************************************************)
EXTENDS Integers, Sequences, FiniteSets, TLC

\* ------------------------------------------------------------------ bounds
\* Calls of the public methods in one behaviour.
MaxCalls == 3
\* Packet timestamps are 0, TickStep, .., MaxStep * TickStep ticks.
MaxStep == 2
TickStep == 61
\* Resolution of the event-time clock.
TicksPerSecond == 2
\* Capacity the caller gave to mpsc::channel.
ChannelCapacity == 1
\* Timestamps of an in-order source are 0, TickStep, .., MaxLongStep * TickStep.
MaxLongStep == 4

\* --------------------------------------------------------------- constants
\* const EXPIRATION_CHECK_INTERVAL = chrono::Duration::seconds(60)
EXPIRATION_CHECK_INTERVAL == 60 * TicksPerSecond

\* ------------------------------------------------------------------ inputs
\* Addresses on the wire as <<source, destination>>: two hosts talking in
\* both directions, and one host sending to its own address and port.
AddressPairs ==
    {<<"10.0.0.1", "10.0.0.2">>, <<"10.0.0.2", "10.0.0.1">>, <<"10.0.0.1", "10.0.0.1">>}
Ports == {443}
Protocols == {6}
Times == {k * TickStep : k \in 0..MaxStep}
\* Arguments of FlowTable::new: seconds, and Option<seconds>.
Configs ==
    {[active_timeout |-> 60, idle_timeout |-> 40, early_export |-> <<>>],
     [active_timeout |-> 60, idle_timeout |-> 40, early_export |-> <<20>>],
     [active_timeout |-> 90, idle_timeout |-> 30, early_export |-> <<20>>]}

\* PacketFeatures: the fields FlowTable reads; fin stands for whatever in the
\* packet makes Flow::update_flow signal termination.
Packets ==
    {[source_ip |-> a[1], source_port |-> sp,
      destination_ip |-> a[2], destination_port |-> dp,
      protocol |-> pr, timestamp |-> t, fin |-> f] :
        a \in AddressPairs, sp \in Ports, dp \in Ports, pr \in Protocols,
        t \in Times, f \in BOOLEAN}

Ids == 1..MaxCalls

\* A longer timeline, for the packets of an in-order source.
LongTimes == {k * TickStep : k \in 0..MaxLongStep}
LongPackets ==
    {[source_ip |-> a[1], source_port |-> sp,
      destination_ip |-> a[2], destination_port |-> dp,
      protocol |-> pr, timestamp |-> t, fin |-> f] :
        a \in AddressPairs, sp \in Ports, dp \in Ports, pr \in Protocols,
        t \in LongTimes, f \in BOOLEAN}

None == <<>>
Some(v) == <<v>>

VARIABLES
    flow_map,           \* FlowTable.flow_map: key -> flow
    active_timeout,     \* FlowTable.active_timeout (seconds)
    idle_timeout,       \* FlowTable.idle_timeout (seconds)
    early_export,       \* FlowTable.early_export: Option<u64> (seconds)
    next_check_time,    \* FlowTable.next_check_time: Option<DateTime>
    chan,               \* flows queued in the export channel
    closed,             \* the receiver has closed the channel
    errors_logged,      \* error! lines written by export_flow
    pc,                 \* position of the table's task
    packet,             \* argument of the running process_packet, or None
    sweep_ts,           \* argument of the export_expired_flows of this call, or None
    expired_flows,      \* local Vec of export_expired_flows still to visit
    resolved,           \* local flow_key of process_packet, or None
    flows_to_export,    \* local Vec of export_all_flows still to visit
    sending,            \* argument of the running export_flow, or None
    ret,                \* where the running export_flow returns to
    ncalls,             \* history: public calls made so far
    created,            \* history: ids of the flows constructed so far
    exported,           \* history: id -> export_flow calls by a removing path
    early_sent,         \* history: id -> export_flow calls with a clone
    updates,            \* history: id -> update_flow calls received
    last_sweep,         \* history: timestamp of the last sweep process_packet ran
    call_op,            \* history: the running public method
    call_pre,           \* history: flow_map when the running call began
    call_sends,         \* history: export_flow calls of the running call
    call_update,        \* history: the update_flow call of the running call, or None
    layout,             \* the #[repr(C)] record being laid out, or None
    ordered_clock       \* timestamp of the last packet of an in-order packet source

vars == <<flow_map, active_timeout, idle_timeout, early_export, next_check_time,
          chan, closed, errors_logged, pc, packet, sweep_ts, expired_flows,
          resolved, flows_to_export, sending, ret, ncalls, created, exported,
          early_sent, updates, last_sweep, call_op, call_pre, call_sends, call_update,
          layout, ordered_clock>>

table == <<flow_map, active_timeout, idle_timeout, early_export, next_check_time>>
config == <<active_timeout, idle_timeout, early_export>>
channel == <<chan, closed, errors_logged>>
locals == <<packet, sweep_ts, expired_flows, resolved, flows_to_export, sending, ret>>
flow_history == <<created, exported, early_sent, updates, last_sweep>>
call_history == <<call_op, call_pre, call_sends, call_update>>
apart == <<layout, ordered_clock>>

\* ------------------------------------------------- PacketFeatures and Flow
\* PacketFeatures::flow_key: the source -> destination key.
flow_key(p) ==
    <<p.source_ip, p.source_port, p.destination_ip, p.destination_port, p.protocol>>

\* PacketFeatures::flow_key_bwd: the destination -> source key.
flow_key_bwd(p) ==
    <<p.destination_ip, p.destination_port, p.source_ip, p.source_port, p.protocol>>

\* Flow::new: a fresh flow seeded by its first packet; id is a ghost field
\* naming the instance.
FlowNew(key, p, id) ==
    [flow_key |-> key,
     source_ip |-> p.source_ip, source_port |-> p.source_port,
     destination_ip |-> p.destination_ip, destination_port |-> p.destination_port,
     protocol |-> p.protocol,
     first_timestamp |-> p.timestamp, last_timestamp |-> p.timestamp,
     fwd_packets |-> 1, bwd_packets |-> 0, id |-> id]

\* Flow::update_flow: folds the packet into the directional counters and
\* returns the flow with the termination signal.
update_flow(flow, p, is_forward) ==
    [flow |-> [flow EXCEPT !.last_timestamp = p.timestamp,
                           !.fwd_packets = IF is_forward THEN @ + 1 ELSE @,
                           !.bwd_packets = IF is_forward THEN @ ELSE @ + 1],
     terminated |-> p.fin]

\* Flow::is_expired: now - first-seen exceeds the active timeout, or
\* now - last-seen exceeds the idle timeout.
is_expired(flow, now, active, idle) ==
    \/ now - flow.first_timestamp > active * TicksPerSecond
    \/ now - flow.last_timestamp > idle * TicksPerSecond

\* Flow::get_first_timestamp
get_first_timestamp(flow) == flow.first_timestamp

\* ------------------------------------------------------- library functions
\* TimeDelta::num_seconds: whole seconds, truncated toward zero.
num_seconds(d) ==
    IF d >= 0 THEN d \div TicksPerSecond ELSE 0 - ((0 - d) \div TicksPerSecond)

\* `as u64` of an i64: x mod 2^64, written wraps * 2^64 + low so that no
\* number beyond 32 bits is computed.
AsU64(x) == IF x >= 0 THEN [wraps |-> 0, low |-> x] ELSE [wraps |-> 1, low |-> x]

\* a > b for a u64 a from AsU64 and a threshold b < 2^63: a wrapped a is at
\* least 2^63.
U64Greater(a, b) == IF a.wraps = 1 THEN TRUE ELSE a.low > b

\* HashMap::contains_key
contains_key(map, key) == key \in DOMAIN map

\* HashMap::remove: the map without the key, and the value it held.
Remove(map, key) ==
    IF key \in DOMAIN map
    THEN [map |-> [k \in DOMAIN map \ {key} |-> map[k]], value |-> Some(map[key])]
    ELSE [map |-> map, value |-> None]

\* HashMap::insert
Insert(map, key, flow) ==
    [k \in DOMAIN map \cup {key} |-> IF k = key THEN flow ELSE map[k]]

\* The orders in which a HashMap may iterate over the elements of S.
IterationOrders(S) ==
    {s \in [1..Cardinality(S) -> S] : \A i, j \in 1..Cardinality(S) : s[i] = s[j] => i = j}

RECURSIVE InsertByKey(_, _)
\* x placed after the elements of the sorted seq whose key is <= its own.
InsertByKey(seq, x) ==
    IF seq = <<>> THEN <<x>>
    ELSE IF get_first_timestamp(Head(seq)) <= get_first_timestamp(x)
         THEN <<Head(seq)>> \o InsertByKey(Tail(seq), x)
         ELSE <<x>> \o seq

\* Mutant of SortByFirstTimestamp: the drained flows are not sorted.
KeepDrainOrder(seq) == seq

RECURSIVE SortByFirstTimestamp(_)
\* flows_to_export.sort_by_key(|flow| flow.get_first_timestamp()): stable.
SortByFirstTimestamp(seq) ==
    IF seq = <<>> THEN <<>>
    ELSE InsertByKey(SortByFirstTimestamp(SubSeq(seq, 1, Len(seq) - 1)), seq[Len(seq)])

\* ------------------------------------------------------------ FlowTable
\* Mutant of SweepDue: the comparison with next_check_time is reversed.
SweepDueReversed(p) ==
    \/ next_check_time = None
    \/ p.timestamp <= next_check_time[1]

\* The gate of process_packet.
SweepDue(p) ==
    \/ next_check_time = None
    \/ p.timestamp >= next_check_time[1]

\* Mutant of NextCheckAfter: the next sweep is due two intervals later.
NextCheckAfterTwice(p) == Some(p.timestamp + 2 * EXPIRATION_CHECK_INTERVAL)

\* The value process_packet stores in next_check_time after a sweep.
NextCheckAfter(p) == Some(p.timestamp + EXPIRATION_CHECK_INTERVAL)

\* Mutant of ResolveKey: the backward key is never looked up.
ResolveKeyForwardOnly(p) == flow_key(p)

\* Mutant of ResolveKey: the forward key is looked up, the backward key is
\* the default.
ResolveKeyBackwardDefault(p) ==
    IF contains_key(flow_map, flow_key(p)) THEN flow_key(p) ELSE flow_key_bwd(p)

\* Key resolution of process_packet.
ResolveKey(p) ==
    IF contains_key(flow_map, flow_key_bwd(p)) THEN flow_key_bwd(p) ELSE flow_key(p)

\* Mutant of IsForward: forward means "not resolved to the backward key".
IsForwardUnlessBackward(key, p) == key # flow_key_bwd(p)

\* Direction passed to update_flow.
IsForward(key, p) == key = flow_key(p)

\* The early-export test of process_packet on a live, non-terminated flow.
EarlyExportDue(p, flow) ==
    /\ early_export # None
    /\ U64Greater(AsU64(num_seconds(p.timestamp - get_first_timestamp(flow))),
                  early_export[1])

\* Mutant of FlowTerminated: the early-export test is made first.
FlowTerminatedUnlessEarly(u, p) == u.terminated /\ ~EarlyExportDue(p, u.flow)

\* The branch process_packet takes on the termination signal of update_flow.
FlowTerminated(u, p) == u.terminated

\* Mutant of AfterEarlyExport: the early export takes the flow out of the map.
AfterEarlyExportRemoves(map, key) == Remove(map, key).map

\* The mapping after an early export of the flow under key: the flow stays.
AfterEarlyExport(map, key) == map

\* Mutant of FlowExpired: only the active timeout is tested.
FlowExpiredActiveOnly(flow, p) ==
    p.timestamp - flow.first_timestamp > active_timeout * TicksPerSecond

\* The per-packet expiry check of process_packet on the resolved flow.
FlowExpired(flow, p) == is_expired(flow, p.timestamp, active_timeout, idle_timeout)

\* Mutant of TakeExpired: the entry is removed under the packet's forward key.
TakeExpiredForwardKey(key) == Remove(flow_map, flow_key(packet[1]))

\* Removal of the flow found expired by process_packet.
TakeExpired(key) == Remove(flow_map, key)

\* Removal of the flow that signalled termination.
TakeTerminated(map, key) == Remove(map, key)

\* Mutant of TakeSwept: the flow is read and cloned, not removed.
TakeSweptKeepsEntry(key) ==
    [map |-> flow_map,
     value |-> IF key \in DOMAIN flow_map THEN Some(flow_map[key]) ELSE None]

\* Removal of a key collected by export_expired_flows.
TakeSwept(key) == Remove(flow_map, key)

\* Mutant of ReplacementKey: the resolved key is reused for the new flow.
ReplacementKeyResolved(p) == resolved[1]

\* Key under which process_packet stores the flow replacing an expired one.
ReplacementKey(p) == flow_key(p)

\* Mutant of ExpiredKeys: the is_expired filter is left out.
ExpiredKeysAll(timestamp) == DOMAIN flow_map

\* Mutant of ExpiredKeys: only the active timeout is tested.
ExpiredKeysActiveOnly(timestamp) ==
    {key \in DOMAIN flow_map :
        timestamp - flow_map[key].first_timestamp > active_timeout * TicksPerSecond}

\* Keys collected by export_expired_flows.
ExpiredKeys(timestamp) ==
    {key \in DOMAIN flow_map :
        is_expired(flow_map[key], timestamp, active_timeout, idle_timeout)}

Bump(f, id) == [f EXCEPT ![id] = @ + 1]
SendRecord(flow, path) ==
    [id |-> flow.id, first_timestamp |-> flow.first_timestamp, path |-> path]

EmptyMap == [k \in {} |-> 0]

\* FlowTable::new, and nothing called yet.
New ==
    /\ flow_map = EmptyMap
    /\ \E c \in Configs :
         /\ active_timeout = c.active_timeout
         /\ idle_timeout = c.idle_timeout
         /\ early_export = c.early_export
    /\ next_check_time = None
    /\ chan = <<>>
    /\ closed = FALSE
    /\ errors_logged = 0
    /\ pc = "idle"
    /\ packet = None
    /\ sweep_ts = None
    /\ expired_flows = <<>>
    /\ resolved = None
    /\ flows_to_export = <<>>
    /\ sending = None
    /\ ret = "idle"
    /\ ncalls = 0
    /\ created = {}
    /\ exported = [i \in Ids |-> 0]
    /\ early_sent = [i \in Ids |-> 0]
    /\ updates = [i \in Ids |-> 0]
    /\ last_sweep = None
    /\ call_op = "none"
    /\ call_pre = EmptyMap
    /\ call_sends = <<>>
    /\ call_update = None

Init == New /\ layout = None /\ ordered_clock = 0

\* process_packet up to the gate: a due sweep collects the expired keys.
ProcessPacket(p) ==
    /\ pc = "idle"
    /\ ncalls < MaxCalls
    /\ ncalls' = ncalls + 1
    /\ call_op' = "process_packet"
    /\ call_pre' = flow_map
    /\ packet' = Some(p)
    /\ IF SweepDue(p)
       THEN /\ sweep_ts' = Some(p.timestamp)
            /\ expired_flows' \in IterationOrders(ExpiredKeys(p.timestamp))
            /\ last_sweep' = Some(p.timestamp)
            /\ pc' = "sweep"
       ELSE /\ pc' = "resolve"
            /\ UNCHANGED <<sweep_ts, expired_flows, last_sweep>>
    /\ UNCHANGED <<table, channel, resolved, flows_to_export, sending, ret,
                   created, exported, early_sent, updates, call_sends, call_update>>

\* process_packet called with a packet of any timestamp.
CallProcessPacket(p) == ProcessPacket(p) /\ UNCHANGED apart

\* process_packet called by a source whose timestamps never decrease.
CallOrderedPacket(p) ==
    /\ p.timestamp >= ordered_clock
    /\ ordered_clock' = p.timestamp
    /\ ProcessPacket(p)
    /\ UNCHANGED layout

\* export_expired_flows called by the owner of the table.
CallExportExpiredFlows(timestamp) ==
    /\ pc = "idle"
    /\ ncalls < MaxCalls
    /\ ncalls' = ncalls + 1
    /\ call_op' = "export_expired_flows"
    /\ call_pre' = flow_map
    /\ sweep_ts' = Some(timestamp)
    /\ expired_flows' \in IterationOrders(ExpiredKeys(timestamp))
    /\ pc' = "sweep"
    /\ UNCHANGED <<table, channel, packet, resolved, flows_to_export, sending, ret,
                   flow_history, call_sends, call_update>>
    /\ UNCHANGED apart

\* One turn of the removal loop of export_expired_flows; at its end the
\* caller goes on (process_packet sets next_check_time and resolves the key).
SweepStep ==
    /\ pc = "sweep"
    /\ IF expired_flows = <<>>
       THEN /\ IF packet # None
               THEN /\ next_check_time' = NextCheckAfter(packet[1])
                    /\ pc' = "resolve"
               ELSE /\ pc' = "return"
                    /\ UNCHANGED next_check_time
            /\ UNCHANGED <<flow_map, expired_flows, sending, ret, exported, call_sends>>
       ELSE LET r == TakeSwept(Head(expired_flows)) IN
            /\ expired_flows' = Tail(expired_flows)
            /\ flow_map' = r.map
            /\ IF r.value # None
               THEN /\ sending' = r.value
                    /\ ret' = "sweep"
                    /\ pc' = "send"
                    /\ exported' = Bump(exported, r.value[1].id)
                    /\ call_sends' = Append(call_sends, SendRecord(r.value[1], "sweep"))
               ELSE UNCHANGED <<sending, ret, pc, exported, call_sends>>
            /\ UNCHANGED next_check_time
    /\ UNCHANGED <<config, channel, packet, sweep_ts, resolved, flows_to_export,
                   ncalls, created, early_sent, updates, last_sweep,
                   call_op, call_pre, call_update>>
    /\ UNCHANGED apart

\* process_packet from key resolution to its end or to its export_flow call.
Resolve ==
    /\ pc = "resolve"
    /\ LET p == packet[1]
           key == ResolveKey(p)
       IN  /\ resolved' = Some(key)
           /\ IF contains_key(flow_map, key)
              THEN LET flow == flow_map[key] IN
                   IF FlowExpired(flow, p)
                   THEN LET r == TakeExpired(key) IN
                        IF r.value = None
                        THEN /\ pc' = "panicked"
                             /\ UNCHANGED <<flow_map, sending, ret, created, exported,
                                            early_sent, updates, call_sends, call_update>>
                        ELSE /\ flow_map' = r.map
                             /\ sending' = r.value
                             /\ ret' = "new_flow"
                             /\ pc' = "send"
                             /\ exported' = Bump(exported, r.value[1].id)
                             /\ call_sends' = Append(call_sends,
                                                     SendRecord(r.value[1], "expired"))
                             /\ UNCHANGED <<created, early_sent, updates, call_update>>
                   ELSE LET is_forward == IsForward(key, p)
                            u == update_flow(flow, p, is_forward)
                            updated == Insert(flow_map, key, u.flow)
                        IN  /\ updates' = Bump(updates, flow.id)
                            /\ call_update' = Some([key |-> key, is_forward |-> is_forward,
                                                    id |-> flow.id,
                                                    terminated |-> u.terminated])
                            /\ IF FlowTerminated(u, p)
                               THEN LET r == TakeTerminated(updated, key) IN
                                    /\ flow_map' = r.map
                                    /\ IF r.value # None
                                       THEN /\ sending' = r.value
                                            /\ ret' = "return"
                                            /\ pc' = "send"
                                            /\ exported' = Bump(exported, r.value[1].id)
                                            /\ call_sends' = Append(call_sends,
                                                   SendRecord(r.value[1], "terminated"))
                                       ELSE /\ pc' = "return"
                                            /\ UNCHANGED <<sending, ret, exported, call_sends>>
                                    /\ UNCHANGED early_sent
                               ELSE IF EarlyExportDue(p, u.flow)
                                    THEN /\ flow_map' = AfterEarlyExport(updated, key)
                                         /\ sending' = Some(u.flow)
                                         /\ ret' = "return"
                                         /\ pc' = "send"
                                         /\ early_sent' = Bump(early_sent, flow.id)
                                         /\ call_sends' = Append(call_sends,
                                                SendRecord(u.flow, "early"))
                                         /\ UNCHANGED exported
                                    ELSE /\ flow_map' = updated
                                         /\ pc' = "return"
                                         /\ UNCHANGED <<sending, ret, exported,
                                                        early_sent, call_sends>>
                            /\ UNCHANGED created
              ELSE /\ flow_map' = Insert(flow_map, key, FlowNew(key, p, ncalls))
                   /\ created' = created \cup {ncalls}
                   /\ pc' = "return"
                   /\ UNCHANGED <<sending, ret, exported, early_sent, updates,
                                  call_sends, call_update>>
    /\ UNCHANGED <<config, next_check_time, channel, packet, sweep_ts, expired_flows,
                   flows_to_export, ncalls, last_sweep, call_op, call_pre>>
    /\ UNCHANGED apart

\* process_packet after the export of an expired flow: the packet starts a
\* new flow, stored under ReplacementKey.
InsertNewFlow ==
    /\ pc = "new_flow"
    /\ LET p == packet[1] IN
       flow_map' = Insert(flow_map, ReplacementKey(p), FlowNew(flow_key(p), p, ncalls))
    /\ created' = created \cup {ncalls}
    /\ pc' = "return"
    /\ UNCHANGED <<config, next_check_time, channel, locals, ncalls, exported,
                   early_sent, updates, last_sweep, call_history>>
    /\ UNCHANGED apart

\* export_all_flows: drain in the map's iteration order, then sort.
CallExportAllFlows ==
    /\ pc = "idle"
    /\ ncalls < MaxCalls
    /\ ncalls' = ncalls + 1
    /\ call_op' = "export_all_flows"
    /\ call_pre' = flow_map
    /\ \E order \in IterationOrders(DOMAIN flow_map) :
         flows_to_export' =
            SortByFirstTimestamp([i \in 1..Len(order) |-> flow_map[order[i]]])
    /\ flow_map' = EmptyMap
    /\ pc' = "flush"
    /\ UNCHANGED <<config, next_check_time, channel, packet, sweep_ts, expired_flows,
                   resolved, sending, ret, flow_history, call_sends, call_update>>
    /\ UNCHANGED apart

\* One turn of the export loop of export_all_flows.
FlushStep ==
    /\ pc = "flush"
    /\ IF flows_to_export = <<>>
       THEN /\ pc' = "return"
            /\ UNCHANGED <<flows_to_export, sending, ret, exported, call_sends>>
       ELSE LET flow == Head(flows_to_export) IN
            /\ flows_to_export' = Tail(flows_to_export)
            /\ sending' = Some(flow)
            /\ ret' = "flush"
            /\ pc' = "send"
            /\ exported' = Bump(exported, flow.id)
            /\ call_sends' = Append(call_sends, SendRecord(flow, "flush"))
    /\ UNCHANGED <<table, channel, packet, sweep_ts, expired_flows, resolved,
                   ncalls, created, early_sent, updates, last_sweep,
                   call_op, call_pre, call_update>>
    /\ UNCHANGED apart

\* Mutant of ExportFlow: the Err of send is unwrapped instead of logged.
ExportFlowUnwraps ==
    /\ pc = "send"
    /\ \/ /\ closed
          /\ pc' = "panicked"
          /\ UNCHANGED <<chan, sending, ret>>
       \/ /\ ~closed
          /\ Len(chan) < ChannelCapacity
          /\ chan' = Append(chan, sending[1])
          /\ sending' = None
          /\ pc' = ret
          /\ ret' = "idle"
    /\ UNCHANGED <<table, closed, errors_logged, packet, sweep_ts, expired_flows,
                   resolved, flows_to_export, ncalls, flow_history, call_history>>
    /\ UNCHANGED apart

\* Mutant of ExportFlow: try_send in place of send(..).await, which gives up
\* on a full channel and drops the flow.
ExportFlowTrySend ==
    /\ pc = "send"
    /\ \/ /\ closed \/ Len(chan) >= ChannelCapacity
          /\ errors_logged' = errors_logged + 1
          /\ UNCHANGED chan
       \/ /\ ~closed
          /\ Len(chan) < ChannelCapacity
          /\ chan' = Append(chan, sending[1])
          /\ UNCHANGED errors_logged
    /\ sending' = None
    /\ pc' = ret
    /\ ret' = "idle"
    /\ UNCHANGED <<table, closed, packet, sweep_ts, expired_flows, resolved,
                   flows_to_export, ncalls, flow_history, call_history>>
    /\ UNCHANGED apart

\* Mutant of ExportFlow: a send on a closed channel stays pending.
ExportFlowPendingWhenClosed ==
    /\ pc = "send"
    /\ ~closed
    /\ Len(chan) < ChannelCapacity
    /\ chan' = Append(chan, sending[1])
    /\ sending' = None
    /\ pc' = ret
    /\ ret' = "idle"
    /\ UNCHANGED <<table, closed, errors_logged, packet, sweep_ts, expired_flows,
                   resolved, flows_to_export, ncalls, flow_history, call_history>>
    /\ UNCHANGED apart

\* export_flow: send(flow).await; an Err (receiver closed) is logged and the
\* flow is dropped.  While the channel is full and open the send is pending.
ExportFlow ==
    /\ pc = "send"
    /\ \/ /\ closed
          /\ errors_logged' = errors_logged + 1
          /\ UNCHANGED chan
       \/ /\ ~closed
          /\ Len(chan) < ChannelCapacity
          /\ chan' = Append(chan, sending[1])
          /\ UNCHANGED errors_logged
    /\ sending' = None
    /\ pc' = ret
    /\ ret' = "idle"
    /\ UNCHANGED <<table, closed, packet, sweep_ts, expired_flows, resolved,
                   flows_to_export, ncalls, flow_history, call_history>>
    /\ UNCHANGED apart

\* The public method returns to its caller; its locals go out of scope.
Return ==
    /\ pc = "return"
    /\ pc' = "idle"
    /\ packet' = None
    /\ sweep_ts' = None
    /\ resolved' = None
    /\ call_op' = "none"
    /\ call_pre' = EmptyMap
    /\ call_sends' = <<>>
    /\ call_update' = None
    /\ UNCHANGED <<table, channel, expired_flows, flows_to_export, sending, ret,
                   ncalls, flow_history>>
    /\ UNCHANGED apart

\* The consumer takes the oldest queued flow.
Recv ==
    /\ chan # <<>>
    /\ chan' = Tail(chan)
    /\ UNCHANGED <<table, closed, errors_logged, pc, locals, ncalls,
                   flow_history, call_history>>
    /\ UNCHANGED apart

\* The consumer closes or drops the receiver.
Close ==
    /\ ~closed
    /\ closed' = TRUE
    /\ UNCHANGED <<table, chan, errors_logged, pc, locals, ncalls,
                   flow_history, call_history>>
    /\ UNCHANGED apart

Next ==
    \/ \E p \in Packets : CallProcessPacket(p)
    \/ \E t \in Times : CallExportExpiredFlows(t)
    \/ CallExportAllFlows
    \/ SweepStep
    \/ Resolve
    \/ InsertNewFlow
    \/ FlushStep
    \/ ExportFlow
    \/ Return
    \/ Recv
    \/ Close

Spec == Init /\ [][Next]_vars

\* A step of the task that runs the table's calls.
TableStep == SweepStep \/ Resolve \/ InsertNewFlow \/ FlushStep \/ ExportFlow \/ Return

\* The runtime polls the table's task whenever it can make a step, and the
\* consumer keeps receiving from the channel or closes it.
LiveSpec == Init /\ [][Next]_vars /\ WF_vars(TableStep) /\ WF_vars(Recv \/ Close)

\* The table fed by a source whose packet timestamps never decrease.
OrderedNext ==
    \/ \E p \in LongPackets : CallOrderedPacket(p)
    \/ \E t \in {u \in LongTimes : u >= ordered_clock} : CallExportExpiredFlows(t)
    \/ CallExportAllFlows
    \/ SweepStep
    \/ Resolve
    \/ InsertNewFlow
    \/ FlushStep
    \/ ExportFlow
    \/ Return
    \/ Recv
    \/ Close

OrderedSpec == Init /\ [][OrderedNext]_vars

\* The same timeline with the packets in any order.
UnorderedNext ==
    \/ \E p \in LongPackets : CallProcessPacket(p)
    \/ \E t \in LongTimes : CallExportExpiredFlows(t)
    \/ CallExportAllFlows
    \/ SweepStep
    \/ Resolve
    \/ InsertNewFlow
    \/ FlushStep
    \/ ExportFlow
    \/ Return
    \/ Recv
    \/ Close

UnorderedSpec == Init /\ [][UnorderedNext]_vars

\* ------------------------------------------------------- record layouts
\* Size and alignment of the field types of common/src/lib.rs.
U8 == [size |-> 1, align |-> 1]
U16 == [size |-> 2, align |-> 2]
U32 == [size |-> 4, align |-> 4]
U128 == [size |-> 16, align |-> 16]
ByteArray(n) == [size |-> n, align |-> 1]

Field(name, type) == [name |-> name, size |-> type.size, align |-> type.align]

\* struct EbpfEventIpv4, fields in declaration order.
EbpfEventIpv4 ==
    <<Field("ipv4_destination", U32), Field("ipv4_source", U32),
      Field("port_destination", U16), Field("port_source", U16),
      Field("data_length", U16), Field("length", U16), Field("window_size", U16),
      Field("combined_flags", U8), Field("protocol", U8), Field("header_length", U8),
      Field("sequence_number", U32), Field("_padding", ByteArray(3))>>

\* struct EbpfEventIpv6, fields in declaration order.
EbpfEventIpv6 ==
    <<Field("ipv6_destination", U128), Field("ipv6_source", U128),
      Field("port_destination", U16), Field("port_source", U16),
      Field("data_length", U16), Field("length", U16), Field("window_size", U16),
      Field("combined_flags", U8), Field("protocol", U8), Field("header_length", U8),
      Field("sequence_number", U32), Field("_padding", ByteArray(15))>>

\* "is 24 bytes in size", "is 48 bytes in size": the sizes the records'
\* doc comments state.
EbpfEventIpv4Size == 24
EbpfEventIpv6Size == 48

Records == [EbpfEventIpv4 |-> EbpfEventIpv4, EbpfEventIpv6 |-> EbpfEventIpv6]

\* The field list without its i-th field; the whole list for i = 0.
Omit(fields, i) == SubSeq(fields, 1, i - 1) \o SubSeq(fields, i + 1, Len(fields))

\* The records to lay out: the two declared ones, and each of them with one
\* field left out.
LayoutInputs ==
    {[record |-> r, omitted |-> i, fields |-> Omit(Records[r], i),
      offset |-> 0, align |-> 1, size |-> None] :
        r \in DOMAIN Records, i \in 0..12}

\* The next multiple of align at or after offset.
AlignUp(offset, align) == ((offset + align - 1) \div align) * align

Max(a, b) == IF a >= b THEN a ELSE b

LayoutInit ==
    /\ New
    /\ early_export = None
    /\ layout \in {Some(l) : l \in LayoutInputs}
    /\ ordered_clock = 0

\* #[repr(C)]: the next field goes to the next offset that is a multiple of
\* its alignment; the record is aligned as its most aligned field.
PlaceField ==
    /\ layout # None
    /\ layout[1].fields # <<>>
    /\ LET l == layout[1]
           f == Head(l.fields)
       IN  layout' = Some([l EXCEPT !.fields = Tail(@),
                                    !.offset = AlignUp(l.offset, f.align) + f.size,
                                    !.align = Max(@, f.align)])
    /\ UNCHANGED <<table, channel, pc, locals, ncalls, flow_history, call_history,
                   ordered_clock>>

\* #[repr(C)]: the size is the end of the last field rounded up to the
\* record's alignment.
FinishLayout ==
    /\ layout # None
    /\ layout[1].fields = <<>>
    /\ layout[1].size = None
    /\ layout' = Some([layout[1] EXCEPT !.size = Some(AlignUp(layout[1].offset, layout[1].align))])
    /\ UNCHANGED <<table, channel, pc, locals, ncalls, flow_history, call_history,
                   ordered_clock>>

LayoutNext == PlaceField \/ FinishLayout

LayoutSpec == LayoutInit /\ [][LayoutNext]_vars

\* ------------------------------------------------------------ properties
\* The key of the opposite direction.
BackwardKey(key) == <<key[3], key[4], key[1], key[2], key[5]>>

\* Ids of the flows stored in the mapping.
LiveIds == {flow_map[k].id : k \in DOMAIN flow_map}

\* Ids of the flows export_all_flows has drained and not yet sent.
DrainedIds == {flows_to_export[i].id : i \in 1..Len(flows_to_export)}

\* C1: in every state reached by process_packet, export_expired_flows and
\* export_all_flows calls, the mapping never holds both the forward and the
\* backward key of one endpoint pair and protocol as two distinct entries.
C1_OneEntryPerConversation ==
    \A k \in DOMAIN flow_map :
        BackwardKey(k) # k => BackwardKey(k) \notin DOMAIN flow_map

\* A flow of two distinct endpoints that has taken packets in both directions.
C1_Witness ==
    \E k \in DOMAIN flow_map :
        /\ BackwardKey(k) # k
        /\ flow_map[k].fwd_packets > 1
        /\ flow_map[k].bwd_packets > 0

\* C2: each flow instance is handed to export_flow by a removing path exactly
\* once when it leaves the mapping and never again: a flow that is stored (or
\* drained and waiting in the flush loop) has not been exported, every other
\* flow ever constructed has been exported exactly once, the flow being sent
\* by a removing path is absent from the mapping, and a flow that has been
\* exported receives no further update_flow call.
C2_ExportedOnceOnRemoval ==
    /\ [](/\ \A i \in Ids :
                exported[i] = IF i \in created \ (LiveIds \cup DrainedIds) THEN 1 ELSE 0
          /\ LiveIds \cap DrainedIds = {}
          /\ (pc = "send" /\ call_sends[Len(call_sends)].path # "early")
                => sending[1].id \notin LiveIds)
    /\ [][\A i \in Ids : exported[i] > 0 => updates'[i] = updates[i]]_vars

\* A flow was updated, then removed and exported, and a later flow is stored.
C2_Witness ==
    \E i \in created, j \in LiveIds :
        /\ exported[i] = 1
        /\ updates[i] > 0
        /\ j > i
        /\ pc = "idle"

\* The step of process_packet that resolves the key and acts on it.
ResolveStep == pc = "resolve" /\ pc' # pc

\* The step of process_packet that calls update_flow.
UpdateStep == ResolveStep /\ updates' # updates

\* C3 as stated: the packet is applied to the entry under its backward key with
\* is_forward = false whenever that key is present, and to its forward key
\* with is_forward = true otherwise.
C3_BackwardKeyMeansBackward ==
    [][UpdateStep =>
         LET p == packet[1]
             present == contains_key(flow_map, flow_key_bwd(p))
         IN  /\ call_update'[1].key = IF present THEN flow_key_bwd(p) ELSE flow_key(p)
             /\ call_update'[1].is_forward = ~present]_vars

\* C3 (amended): the packet resolves to its backward key when that key is
\* present and to its forward key otherwise; update_flow gets is_forward =
\* false exactly when the resolved key differs from the forward key, so a
\* packet whose two keys coincide is applied as forward; a B->A packet applied
\* to the flow keyed A->B (A # B) adds no entry and counts as a backward packet.
C3_KeyResolution ==
    [][ResolveStep =>
         LET p == packet[1]
             fwd == flow_key(p)
             bwd == flow_key_bwd(p)
             key == IF contains_key(flow_map, bwd) THEN bwd ELSE fwd
         IN  /\ resolved' = Some(key)
             /\ UpdateStep =>
                  /\ call_update'[1].key = key
                  /\ call_update'[1].id = flow_map[key].id
                  /\ call_update'[1].is_forward = (key = fwd)
                  /\ DOMAIN flow_map' \subseteq DOMAIN flow_map
                  /\ key # fwd =>
                       /\ fwd \notin DOMAIN flow_map'
                       /\ key \in DOMAIN flow_map' =>
                            /\ flow_map'[key].bwd_packets = flow_map[key].bwd_packets + 1
                            /\ flow_map'[key].fwd_packets = flow_map[key].fwd_packets]_vars

\* A -> B then B -> A: one entry, keyed A -> B, the second packet applied to
\* it as a backward packet.
C3_Witness ==
    /\ pc = "return"
    /\ ncalls = 2
    /\ call_update # None
    /\ ~call_update[1].is_forward
    /\ call_update[1].key = flow_key_bwd(packet[1])
    /\ DOMAIN flow_map = {flow_key_bwd(packet[1])}
    /\ flow_map[flow_key_bwd(packet[1])].bwd_packets = 1

\* Number of export_flow calls of the running call that sent flow i.
SendsOf(i) == Cardinality({n \in 1..Len(call_sends) : call_sends[n].id = i})

\* Ids of the flows that were stored for the packet's conversation and
\* expired at the packet's timestamp when the running process_packet began.
StaleAtCall ==
    LET p == packet[1] IN
    {call_pre[k].id : k \in {k \in DOMAIN call_pre \cap {flow_key(p), flow_key_bwd(p)} :
                        is_expired(call_pre[k], p.timestamp, active_timeout, idle_timeout)}}

\* C4: a process_packet call whose conversation had a stored flow expired at
\* the packet's timestamp ends with that flow removed and exported exactly
\* once (by the sweep if the call ran one, by the per-packet check otherwise),
\* no update_flow call made, and a brand-new flow seeded by the packet stored
\* under the packet's forward key, also when the old one was stored under the
\* backward key.
C4_ExpiredFlowReplaced ==
    (pc = "return" /\ call_op = "process_packet" /\ StaleAtCall # {}) =>
        LET p == packet[1] IN
        /\ \A i \in StaleAtCall :
              /\ i \notin LiveIds
              /\ exported[i] = 1
              /\ SendsOf(i) = 1
              /\ \A n \in 1..Len(call_sends) :
                    call_sends[n].id = i =>
                        call_sends[n].path = IF sweep_ts # None THEN "sweep" ELSE "expired"
        /\ call_update = None
        /\ flow_key(p) \in DOMAIN flow_map
        /\ flow_map[flow_key(p)] = FlowNew(flow_key(p), p, ncalls)
        /\ flow_map[flow_key(p)].first_timestamp = p.timestamp
        /\ flow_key_bwd(p) # flow_key(p) => flow_key_bwd(p) \notin DOMAIN flow_map

\* The old flow was stored under the packet's backward key and removed by the
\* per-packet check of a call that ran no sweep.
C4_Witness ==
    /\ pc = "return"
    /\ call_op = "process_packet"
    /\ StaleAtCall # {}
    /\ sweep_ts = None
    /\ flow_key_bwd(packet[1]) # flow_key(packet[1])
    /\ flow_key_bwd(packet[1]) \in DOMAIN call_pre

\* C5: once update_flow has returned true in a process_packet call, the flow
\* is out of the mapping and has been handed to export_flow exactly once, as
\* a terminated flow, and the call sends no early-export clone, under every
\* configuration of timeouts and early export.
C5_TerminationExports ==
    (call_update # None /\ call_update[1].terminated) =>
        LET i == call_update[1].id IN
        /\ i \notin LiveIds
        /\ call_update[1].key \notin DOMAIN flow_map
        /\ exported[i] = 1
        /\ SendsOf(i) = 1
        /\ \A n \in 1..Len(call_sends) :
              /\ call_sends[n].path # "early"
              /\ call_sends[n].id = i => call_sends[n].path = "terminated"

\* A terminating packet on a flow old enough for an early export.
C5_Witness ==
    /\ pc = "return"
    /\ call_update # None
    /\ call_update[1].terminated
    /\ early_export # None
    /\ call_sends # <<>>
    /\ num_seconds(packet[1].timestamp - call_sends[Len(call_sends)].first_timestamp)
          > early_export[1]

\* The export_flow call in progress sends an early-export clone.
SendingEarly == pc = "send" /\ call_sends[Len(call_sends)].path = "early"

\* C6: an early export sends a clone equal to the live flow and leaves the
\* mapping as it is: the step that issues it keeps every key and the flow
\* instance under the resolved key, the flow stays stored under that key
\* while the clone is sent, and a flow that was early-exported is either
\* still stored or has been exported once more by a removing path; after a
\* completed export_all_flows every early-exported flow has had that export.
C6_EarlyExportKeepsFlow ==
    /\ [](/\ SendingEarly =>
               /\ resolved[1] \in DOMAIN flow_map
               /\ flow_map[resolved[1]] = sending[1]
          /\ \A i \in Ids :
                early_sent[i] > 0 =>
                    /\ i \in created
                    /\ i \in LiveIds \cup DrainedIds \/ exported[i] = 1
          /\ (pc = "return" /\ call_op = "export_all_flows") =>
                \A i \in Ids : early_sent[i] > 0 => exported[i] = 1)
    /\ [][early_sent' # early_sent =>
            /\ DOMAIN flow_map' = DOMAIN flow_map
            /\ \A k \in DOMAIN flow_map : flow_map'[k].id = flow_map[k].id
            /\ \A k \in DOMAIN flow_map \ {resolved'[1]} : flow_map'[k] = flow_map[k]]_vars

\* A flow that was early-exported once, took a later update_flow call and
\* was then exported by a removing path.
C6_Witness ==
    \E i \in created :
        /\ early_sent[i] = 1
        /\ updates[i] >= 2
        /\ exported[i] = 1
        /\ i \notin LiveIds

\* C7: an early-export clone is sent only if early export is configured and
\* the signed elapsed time packet.timestamp - first-seen, in whole seconds,
\* is strictly greater than the threshold; none is sent for a packet older
\* than the flow's first-seen timestamp.
C7_EarlyExportOnlyPastThreshold ==
    SendingEarly =>
        /\ early_export # None
        /\ num_seconds(packet[1].timestamp - get_first_timestamp(sending[1]))
              > early_export[1]

\* C8: two consecutive sweeps triggered by process_packet are at least 60
\* event-seconds apart; next_check_time changes only at the end of such a
\* sweep, to the triggering packet's timestamp plus 60 s, and never
\* decreases; a process_packet call that ran a sweep returns with it set so.
C8_SweepGating ==
    /\ [][(pc = "idle" /\ pc' = "sweep" /\ call_op' = "process_packet" /\ last_sweep # None)
            => packet'[1].timestamp - last_sweep[1] >= 60 * TicksPerSecond]_vars
    /\ [][next_check_time' # next_check_time =>
            /\ pc = "sweep"
            /\ call_op = "process_packet"
            /\ sweep_ts = Some(packet[1].timestamp)
            /\ next_check_time' = Some(packet[1].timestamp + 60 * TicksPerSecond)
            /\ next_check_time # None => next_check_time'[1] >= next_check_time[1]]_vars
    /\ []((pc = "return" /\ call_op = "process_packet" /\ sweep_ts # None)
            => next_check_time = Some(packet[1].timestamp + 60 * TicksPerSecond))

\* A second sweep starts, at or after the next_check_time an earlier one set.
C8_Witness ==
    /\ pc = "sweep"
    /\ call_op = "process_packet"
    /\ next_check_time # None
    /\ last_sweep # None
    /\ sweep_ts[1] >= next_check_time[1]

\* C9: export_all_flows empties the mapping and hands every flow that was in
\* it to export_flow exactly once, in non-decreasing order of first-seen
\* timestamp, for every iteration order of the mapping.
C9_FlushSortedAndComplete ==
    call_op = "export_all_flows" =>
        /\ flow_map = EmptyMap
        /\ \A m, n \in 1..Len(call_sends) :
              /\ m < n => call_sends[m].first_timestamp <= call_sends[n].first_timestamp
              /\ m # n => call_sends[m].id # call_sends[n].id
              /\ call_sends[m].path = "flush"
        /\ {call_sends[n].id : n \in 1..Len(call_sends)} \cup DrainedIds
              = {call_pre[k].id : k \in DOMAIN call_pre}
        /\ Len(call_sends) + Len(flows_to_export) = Cardinality(DOMAIN call_pre)
        /\ pc = "return" => flows_to_export = <<>>

\* A completed flush of two flows, the one constructed later sent first.
C9_Witness ==
    /\ pc = "return"
    /\ call_op = "export_all_flows"
    /\ Len(call_sends) = 2
    /\ call_sends[1].first_timestamp < call_sends[2].first_timestamp
    /\ call_sends[1].id > call_sends[2].id

\* C10: with the export channel closed, export_flow is not left pending and
\* its step returns to the caller's next position, queues nothing, logs the
\* error and leaves the table as a successful send does; the calls go on
\* without reaching a panic.
C10_ClosedChannelDropsFlow ==
    /\ []((pc = "send" /\ closed) => ENABLED ExportFlow)
    /\ [](pc # "panicked")
    /\ [][(pc = "send" /\ pc' # pc) =>
            /\ pc' = ret
            /\ sending' = None
            /\ UNCHANGED <<table, closed, flow_history, call_history>>
            /\ IF closed
               THEN chan' = chan /\ errors_logged' = errors_logged + 1
               ELSE chan' = Append(chan, sending[1]) /\ errors_logged' = errors_logged]_vars

\* After a failed send, a later process_packet call updates a stored flow.
C10_Witness ==
    /\ closed
    /\ errors_logged > 0
    /\ pc = "return"
    /\ call_op = "process_packet"
    /\ call_sends = <<>>
    /\ call_update # None
    /\ LiveIds # {}

\* A send is pending on a channel that is full and still open.
Backpressured == pc = "send" /\ ~closed /\ Len(chan) = ChannelCapacity

\* C11: while the bounded channel is full and still open, the pending
\* export_flow (and with it the process_packet, sweep or flush that issued it)
\* does not complete and does not drop the flow: the only steps are the
\* consumer's, the table, the position and the flow in hand stay as they are,
\* and the send resumes only once the consumer has taken an item; the queue
\* never holds more than ChannelCapacity flows, and a send on an open channel
\* always queues its flow.
C11_Backpressure ==
    /\ [](Len(chan) <= ChannelCapacity)
    /\ [](Backpressured => ~ENABLED ExportFlow)
    /\ [][Backpressured =>
            /\ pc' = pc
            /\ sending' = sending
            /\ sending # None
            /\ UNCHANGED <<table, errors_logged, flow_history, call_history>>
            /\ chan' = Tail(chan) \/ closed']_vars
    /\ [][(pc = "send" /\ pc' # pc /\ ~closed) =>
            /\ Len(chan) < ChannelCapacity
            /\ chan' = Append(chan, sending[1])
            /\ errors_logged' = errors_logged]_vars

\* The flush of two flows waits with its second flow on the full channel.
C11_Witness ==
    /\ Backpressured
    /\ call_op = "export_all_flows"
    /\ Len(call_sends) = 2
    /\ chan[1].id = call_sends[1].id
    /\ sending[1].id = call_sends[2].id

\* C12 as stated: laid out by the C rules, EbpfEventIpv4 with its declared
\* fields occupies exactly 24 bytes and EbpfEventIpv6 exactly 48 bytes,
\* padding included.
C12_DocumentedSizes ==
    (layout # None /\ layout[1].size # None /\ layout[1].omitted = 0) =>
        layout[1].size[1] = IF layout[1].record = "EbpfEventIpv4"
                            THEN EbpfEventIpv4Size ELSE EbpfEventIpv6Size

\* C13 as stated: over its whole lifetime in the mapping a flow is sent as an
\* early-export snapshot at most once, besides its single final export.
C13_AtMostOneEarlyExport == \A i \in Ids : early_sent[i] <= 1

\* The removal loop of the running export_expired_flows has ended.
SweepDone ==
    \/ call_op = "export_expired_flows" /\ pc = "return"
    \/ call_op = "process_packet" /\ pc = "resolve" /\ sweep_ts # None

\* The keys of the mapping at the start of the call whose flows are expired
\* at now.
ExpiredAtStart(now) ==
    {k \in DOMAIN call_pre :
        is_expired(call_pre[k], now, active_timeout, idle_timeout)}

\* C14: export_expired_flows(now) removes and exports exactly the flows for
\* which is_expired(now, ..) holds at the start of the call, each once; every
\* other entry keeps its key and flow state, during the call and after it;
\* after the call no remaining flow is expired at now.
C14_SweepRemovesExactlyExpired ==
    /\ (pc = "sweep" \/ (pc = "send" /\ ret = "sweep")) =>
          \A k \in DOMAIN call_pre \ ExpiredAtStart(sweep_ts[1]) :
              k \in DOMAIN flow_map /\ flow_map[k] = call_pre[k]
    /\ SweepDone =>
          LET now == sweep_ts[1] IN
          /\ DOMAIN flow_map = DOMAIN call_pre \ ExpiredAtStart(now)
          /\ \A k \in DOMAIN flow_map :
                /\ flow_map[k] = call_pre[k]
                /\ ~is_expired(flow_map[k], now, active_timeout, idle_timeout)
          /\ Len(call_sends) = Cardinality(ExpiredAtStart(now))
          /\ {call_sends[n].id : n \in 1..Len(call_sends)}
                = {call_pre[k].id : k \in ExpiredAtStart(now)}
          /\ \A n \in 1..Len(call_sends) :
                call_sends[n].path = "sweep" /\ exported[call_sends[n].id] = 1

\* A direct export_expired_flows call has returned: it sent one of two stored
\* flows and left the other.
C14_Witness ==
    /\ call_op = "export_expired_flows"
    /\ pc = "return"
    /\ Len(call_sends) = 1
    /\ Cardinality(DOMAIN call_pre) = 2
    /\ Cardinality(DOMAIN flow_map) = 1

\* The export_flow calls of the running call made by the given path.
SendsBy(path) == {n \in 1..Len(call_sends) : call_sends[n].path = path}

\* C15 as stated: a single process_packet call performs at most one send on
\* the export channel.
C15_AtMostOneSend == call_op = "process_packet" => Len(call_sends) <= 1

\* C15, amended: a process_packet call sends one flow for every entry its
\* expiration sweep removes (none when the sweep is not due) and after the
\* sweep at most one more, the expired, terminated or early-exported flow of
\* the packet's conversation; it never sends more flows than the mapping held
\* when the call began.
C15_OneSendAfterTheSweep ==
    call_op = "process_packet" =>
        LET swept == SendsBy("sweep")
            after == (1..Len(call_sends)) \ swept
        IN  /\ Cardinality(after) <= 1
            /\ \A n \in after : n = Len(call_sends) /\ pc \in {"send", "new_flow", "return"}
            /\ sweep_ts = None => swept = {}
            /\ sweep_ts # None =>
                  /\ Cardinality(swept) <= Cardinality(ExpiredAtStart(sweep_ts[1]))
                  /\ pc \in {"resolve", "new_flow", "return"} =>
                        Cardinality(swept) = Cardinality(ExpiredAtStart(sweep_ts[1]))
            /\ Len(call_sends) <= Cardinality(DOMAIN call_pre)

\* A process_packet call has returned after its sweep sent two flows.
C15_Witness ==
    /\ call_op = "process_packet"
    /\ pc = "return"
    /\ Cardinality(SendsBy("sweep")) = 2

\* The keys under which the conversation of the running call's packet is
\* stored.
StoredForPacket == DOMAIN flow_map \cap {flow_key(packet[1]), flow_key_bwd(packet[1])}

\* C16: process_packet calls update_flow exactly once when the packet resolves
\* to an existing flow that is not expired at the packet's timestamp, on that
\* flow, and not at all otherwise; no other step calls it; the packet that
\* creates a flow goes to the constructor only, so a stored flow has taken one
\* packet more than it has had update_flow calls; a flow is never updated
\* with a packet at whose timestamp it is expired.
C16_UpdateOnlyLiveFlows ==
    /\ [](\A k \in DOMAIN flow_map :
            flow_map[k].fwd_packets + flow_map[k].bwd_packets = 1 + updates[flow_map[k].id])
    /\ [][updates' # updates => (ResolveStep /\ call_update = None /\ call_update' # None)]_vars
    /\ [][ResolveStep =>
            LET p == packet[1]
                live == {k \in StoredForPacket :
                            ~is_expired(flow_map[k], p.timestamp, active_timeout, idle_timeout)}
            IN  IF live # {}
                THEN /\ \E k \in live : updates' = Bump(updates, flow_map[k].id)
                     /\ created' = created
                ELSE /\ updates' = updates
                     /\ call_update' = None]_vars
    /\ [][created' # created =>
            /\ updates' = updates
            /\ \E k \in DOMAIN flow_map' :
                  /\ flow_map'[k].id \notin created
                  /\ flow_map'[k].fwd_packets = 1
                  /\ flow_map'[k].bwd_packets = 0
                  /\ updates[flow_map'[k].id] = 0]_vars

\* A process_packet call has swept another flow away and then updated the
\* live flow of its packet's conversation.
C16_Witness ==
    /\ pc = "return"
    /\ call_op = "process_packet"
    /\ call_update # None
    /\ SendsBy("sweep") # {}
    /\ updates[call_update[1].id] = 1

\* C17: for packets in any timestamp order process_packet never reaches a
\* panic state: the remove-then-unwrap of the expired branch always finds the
\* entry it removes (the flow in hand for export is the one that was stored
\* under the resolved key), and the call always ends with the packet's
\* conversation represented by at most one entry.
C17_NoPanicAnyOrder ==
    /\ pc # "panicked"
    /\ (pc = "send" /\ ret = "new_flow") =>
          /\ sending # None
          /\ resolved[1] \in DOMAIN call_pre
          /\ resolved[1] \notin DOMAIN flow_map
          /\ sending[1] = call_pre[resolved[1]]
    /\ (call_op = "process_packet" /\ pc \in {"new_flow", "return"}) =>
          Cardinality(StoredForPacket) <= 1

\* With a packet older than the last sweep's, process_packet has found its
\* flow expired, removed it by remove-then-unwrap and stored the replacement.
C17_Witness ==
    /\ call_op = "process_packet"
    /\ pc = "return"
    /\ SendsBy("expired") # {}
    /\ last_sweep # None
    /\ packet[1].timestamp < last_sweep[1]
    /\ Cardinality(StoredForPacket) = 1

\* The forward key of the packet a flow was constructed from.
CreatingKey(flow) ==
    <<flow.source_ip, flow.source_port, flow.destination_ip, flow.destination_port,
      flow.protocol>>

\* C18: every entry is stored under the key its flow was constructed with,
\* and that key is the forward key of the packet that created the flow; for
\* two distinct endpoints it is never the backward key of that packet.  This
\* holds for flows of new conversations and for replacements of expired
\* flows alike.
C18_StoredUnderCreatingForwardKey ==
    \A k \in DOMAIN flow_map :
        /\ flow_map[k].flow_key = k
        /\ k = CreatingKey(flow_map[k])
        /\ BackwardKey(CreatingKey(flow_map[k])) # CreatingKey(flow_map[k])
              => k # BackwardKey(CreatingKey(flow_map[k]))

\* The replacement of an expired flow that was stored under the packet's
\* backward key is stored under the packet's forward key.
C18_Witness ==
    /\ pc = "return"
    /\ call_op = "process_packet"
    /\ SendsBy("expired") # {}
    /\ flow_key_bwd(packet[1]) # flow_key(packet[1])
    /\ resolved[1] = flow_key_bwd(packet[1])
    /\ flow_key(packet[1]) \in DOMAIN flow_map
    /\ flow_map[flow_key(packet[1])].id = ncalls

\* The flows stored when the running call began that are expired at some
\* event-time s with s + 60 s at or before the packet's timestamp.
LongExpired ==
    {call_pre[k].id : k \in
        {k \in DOMAIN call_pre :
            \E s \in LongTimes \cup {packet[1].timestamp - EXPIRATION_CHECK_INTERVAL} :
                /\ s + EXPIRATION_CHECK_INTERVAL <= packet[1].timestamp
                /\ is_expired(call_pre[k], s, active_timeout, idle_timeout)}}

\* C19: with non-decreasing packet timestamps (and is_expired monotonic in
\* the elapsed time), a flow that is expired at event-time s has been removed
\* and exported by the end of every process_packet call whose timestamp is at
\* least s + 60 s, hence of the first one, whatever conversation the packet
\* belongs to.
C19_BoundedStaleness ==
    (call_op = "process_packet" /\ pc = "return") =>
        \A i \in LongExpired : i \notin LiveIds /\ exported[i] = 1

\* A packet of another conversation has returned from a call that swept away
\* a flow expired 60 s or more before the packet's timestamp.
C19_Witness ==
    /\ call_op = "process_packet"
    /\ pc = "return"
    /\ \E n \in SendsBy("sweep") : call_sends[n].id \in LongExpired
    /\ StoredForPacket \cap DOMAIN call_pre = {}

\* Without the ordering the bound is lost: a process_packet call returns and
\* leaves stored a flow that was expired 60 s or more before its timestamp.
C19_StaleFlowOutlivesLatePacket ==
    /\ call_op = "process_packet"
    /\ pc = "return"
    /\ LongExpired \cap LiveIds # {}

\* C20: if the consumer keeps receiving from the channel or closes it, every
\* process_packet, export_expired_flows and export_all_flows call eventually
\* completes; and a call in progress can always make its next step unless it
\* is sending on a channel that is full and open, so the only way it can fail
\* to complete is a full channel whose consumer never receives again.
C20_CallsComplete ==
    /\ (pc # "idle") ~> (pc = "idle")
    /\ []((pc # "idle" /\ ~Backpressured) => ENABLED TableStep)

\* A process_packet call has completed its two sends through the channel,
\* which is open and full again.
C20_Witness ==
    /\ call_op = "process_packet"
    /\ pc = "return"
    /\ Len(call_sends) > ChannelCapacity
    /\ Len(chan) = ChannelCapacity
    /\ ~closed
    /\ errors_logged = 0

====
